---- MODULE Spec2Model ----
(***************************************************************************)
(* The two XDSM figure scripts of figures/XDSM:                            *)
(*   constraint_analysis_xdsm.py  one Diagram, straight-line               *)
(*   weight_estimation_xdsm.py    one Diagram per entry of figure_sets     *)
(* Each script statement is a call on the XDSM object bound to x.  The     *)
(* XDSM class itself is imported from pyxdsm and is not part of these      *)
(* files, so a Diagram is represented by what the scripts do to it: the    *)
(* ordered log of the calls applied to that object.  Every call into the   *)
(* library either returns or raises; the scripts have no exception         *)
(* handler, so a raise ends the run.                                       *)
(***************************************************************************)
EXTENDS Naturals, Sequences, FiniteSets

VARIABLES script, i, pc, x, objs, written, status

vars == <<script, i, pc, x, objs, written, status>>

Scripts == {"constraint_analysis", "weight_estimation"}

(* What a call into the library can do: return, or raise an exception. *)
Outcomes == {"ok", "raise"}

---------------------------------------------------------------------------
(* The statements, as the calls they make. *)

XDSM(use_sfmath) == [op |-> "XDSM", use_sfmath |-> use_sfmath]

add_system(node_name, style, label, stack, faded) ==
    [op |-> "add_system", id |-> node_name, style |-> style, label |-> label,
     stack |-> stack, faded |-> faded]

connect(src, target, label, stack) ==
    [op |-> "connect", src |-> src, target |-> target, label |-> label,
     stack |-> stack]

add_input(name, label) == [op |-> "add_input", id |-> name, label |-> label]

add_output(name, label) == [op |-> "add_output", id |-> name, label |-> label]

add_process(systems) == [op |-> "add_process", systems |-> systems]

write(file_name, build, cleanup, quiet, outdir) ==
    [op |-> "write", name |-> file_name, build |-> build, cleanup |-> cleanup,
     quiet |-> quiet, outdir |-> outdir]

(* Lines 7-12 with line 11 declaring "climb" a second time. *)
ConstraintSystemsDup ==
    << add_system("opt", "OPT", <<"\\text{($T/W$) and ($W/S$)}", "\\text{Optimization}">>, FALSE, FALSE),
       add_system("aero", "FUNC", <<"\\text{Drag}", "\\text{Polar}">>, FALSE, FALSE),
       add_system("stall", "IFUNC", <<"\\text{Stall Speed}", "\\text{Constraint}">>, FALSE, FALSE),
       add_system("climb", "IFUNC", <<"\\text{Climb}", "\\text{Constraints}">>, TRUE, FALSE),
       add_system("climb", "IFUNC", <<"\\text{Cruise}", "\\text{Constraint}">>, FALSE, FALSE),
       add_system("others", "IFUNC", <<"\\text{Other Mission}", "\\text{Constraints}">>, TRUE, FALSE) >>

(* constraint_analysis_xdsm.py, lines 7-12 *)
ConstraintSystems ==
    << add_system("opt", "OPT", <<"\\text{($T/W$) and ($W/S$)}", "\\text{Optimization}">>, FALSE, FALSE),
       add_system("aero", "FUNC", <<"\\text{Drag}", "\\text{Polar}">>, FALSE, FALSE),
       add_system("stall", "IFUNC", <<"\\text{Stall Speed}", "\\text{Constraint}">>, FALSE, FALSE),
       add_system("climb", "IFUNC", <<"\\text{Climb}", "\\text{Constraints}">>, TRUE, FALSE),
       add_system("cruise", "IFUNC", <<"\\text{Cruise}", "\\text{Constraint}">>, FALSE, FALSE),
       add_system("others", "IFUNC", <<"\\text{Other Mission}", "\\text{Constraints}">>, TRUE, FALSE) >>

(* constraint_analysis_xdsm.py, lines 15-25 *)
ConstraintConnections ==
    << connect("opt", "climb", "(W/S)", TRUE),
       connect("opt", "cruise", "(W/S)", FALSE),
       connect("opt", "others", "(W/S)", TRUE),
       connect("aero", "stall", "C_{D_0}, k", FALSE),
       connect("aero", "climb", "C_{D_0}, k", TRUE),
       connect("aero", "cruise", "C_{D_0}, k", FALSE),
       connect("aero", "others", "C_{D_0}, k", TRUE),
       connect("stall", "opt", "(W/S)_\\text{stall}", FALSE),
       connect("climb", "opt", "(T/W)_\\text{climb}", TRUE),
       connect("cruise", "opt", "(T/W)_\\text{cruise}", FALSE),
       connect("others", "opt", "(T/W)_\\text{others}", TRUE) >>

(* constraint_analysis_xdsm.py, lines 28-33.  add_input and add_output take
   one label or a list of labels; a single label is a list of one here. *)
ConstraintInputs ==
    << add_input("opt", <<"(T/W)_0, (W/S)_0">>),
       add_input("aero", <<"c_f, S_\\text{wet}/S_\\text{ref}", "AR, e, C_{L_{\\alpha=0}}">>),
       add_input("stall", <<"C_{L_\\text{max}}, V_\\text{stall}">>),
       add_input("climb", <<"V_{R/C}">>),
       add_input("cruise", <<"V_\\text{cruise}">>),
       add_input("others", <<"\\mathbf{V_\\text{others}}, ...">>) >>

(* constraint_analysis_xdsm.py, line 36 *)
ConstraintOutputs == << add_output("opt", <<"(T/W)^*, (W/S)^*">>) >>

(* constraint_analysis_xdsm.py, lines 4-39: the whole script *)
ConstraintBody ==
    << XDSM(TRUE) >> \o ConstraintSystems \o ConstraintConnections
        \o ConstraintInputs \o ConstraintOutputs
        \o << write("ConstraintAnalysisXDSM", TRUE, TRUE, FALSE, ".") >>

(* Lines 3-8 with the third and fourth entries exchanged. *)
figure_setsSwapped ==
    << <<"WeightEstimationXDSM", FALSE, FALSE, FALSE, FALSE>>,
       <<"MissionSegmentWeightXDSM", FALSE, TRUE, TRUE, TRUE>>,
       <<"TakeoffWeightXDSM", TRUE, TRUE, FALSE, TRUE>>,
       <<"FuelWeightXDSM", TRUE, FALSE, TRUE, TRUE>>,
       <<"EmptyWeightXDSM", TRUE, TRUE, TRUE, FALSE>>,
       <<"TakeoffEmptyWeightXDSM", TRUE, TRUE, FALSE, FALSE>> >>

(* weight_estimation_xdsm.py, lines 3-8.  Python's figure_set[k] is
   figure_set[k+1] here. *)
figure_sets ==
    << <<"WeightEstimationXDSM", FALSE, FALSE, FALSE, FALSE>>,
       <<"MissionSegmentWeightXDSM", FALSE, TRUE, TRUE, TRUE>>,
       <<"FuelWeightXDSM", TRUE, FALSE, TRUE, TRUE>>,
       <<"TakeoffWeightXDSM", TRUE, TRUE, FALSE, TRUE>>,
       <<"EmptyWeightXDSM", TRUE, TRUE, TRUE, FALSE>>,
       <<"TakeoffEmptyWeightXDSM", TRUE, TRUE, FALSE, FALSE>> >>

(* weight_estimation_xdsm.py, lines 16-19 *)
WeightSystems(figure_set) ==
    << add_system("mission_segment", "FUNC", <<"\\text{Mission Segment}", "\\text{Weight Fraction}">>, TRUE, figure_set[2]),
       add_system("fuel", "FUNC", <<"\\text{Fuel Weight}", "\\text{Estimation}">>, FALSE, figure_set[3]),
       add_system("takeoff", "IFUNC", <<"\\text{Takeoff Weight }", "\\text{Estimation}">>, FALSE, figure_set[4]),
       add_system("empty", "FUNC", <<"\\text{Empty Weight}", "\\text{Estimation}">>, FALSE, figure_set[5]) >>

(* Lines 22-25 with a misspelt target on line 24. *)
WeightConnectionsTypo ==
    << connect("takeoff", "empty", "W_\\mathrm{TO}", FALSE),
       connect("mission_segment", "fuel", "WFs", FALSE),
       connect("fuel", "take_off", "W_\\mathrm{f}/W_\\mathrm{TO}", FALSE),
       connect("empty", "takeoff", "W_\\mathrm{e}/W_\\mathrm{TO}", FALSE) >>

(* weight_estimation_xdsm.py, lines 22-25 *)
WeightConnections ==
    << connect("takeoff", "empty", "W_\\mathrm{TO}", FALSE),
       connect("mission_segment", "fuel", "WFs", FALSE),
       connect("fuel", "takeoff", "W_\\mathrm{f}/W_\\mathrm{TO}", FALSE),
       connect("empty", "takeoff", "W_\\mathrm{e}/W_\\mathrm{TO}", FALSE) >>

(* Line 28 without the closing "takeoff". *)
WeightProcessesOpen ==
    << add_process(<<"mission_segment", "fuel", "takeoff", "empty">>) >>

(* weight_estimation_xdsm.py, line 28 *)
WeightProcesses ==
    << add_process(<<"mission_segment", "fuel", "takeoff", "empty", "takeoff">>) >>

(* weight_estimation_xdsm.py, lines 31-32 *)
WeightInputs ==
    << add_input("mission_segment", <<"\\text{Mission Data}">>),
       add_input("takeoff", <<"W_\\text{crew}, W_\\text{payload}, W_{\\mathrm{TO}_\\text{init}}">>) >>

(* weight_estimation_xdsm.py, line 35 *)
WeightOutputs == << add_output("takeoff", <<"W_\\mathrm{TO}^*">>) >>

(* weight_estimation_xdsm.py, lines 13-38: the body of the for loop *)
WeightBody(figure_set) ==
    << XDSM(TRUE) >> \o WeightSystems(figure_set) \o WeightConnections
        \o WeightProcesses \o WeightInputs \o WeightOutputs
        \o << write(figure_set[1], TRUE, TRUE, FALSE, ".") >>

(* How many times the script's body runs, and the body of run k. *)
Iterations(s) == IF s = "weight_estimation" THEN Len(figure_sets) ELSE 1

Body(s, k) == IF s = "weight_estimation" THEN WeightBody(figure_sets[k]) ELSE ConstraintBody

Stmt == Body(script, i)[pc]

AtStmt(op) == status = "running" /\ pc \in DOMAIN Body(script, i) /\ Stmt.op = op

---------------------------------------------------------------------------
(* Python's control flow around a call. *)

(* A handler that swallows the exception and carries on. *)
AfterCallSwallow(outcome) == "running"

(* Neither script has a try/except: an exception raised by a call
   propagates to the top level and the interpreter exits. *)
AfterCall(outcome) == IF outcome = "ok" THEN "running" ELSE "aborted"

NextPc(outcome) == IF AfterCall(outcome) = "running" THEN pc + 1 ELSE pc

(* One Diagram made once and used for every figure. *)
ConstructReuse(os, cur) ==
    IF cur \in DOMAIN os
       THEN [objs |-> os, x |-> cur]
       ELSE [objs |-> Append(os, [calls |-> <<>>]), x |-> Len(os) + 1]

(* x = XDSM(...): a constructor call makes a new object, to which no call
   has been applied yet, and binds x to it. *)
Construct(os, cur) ==
    LET new == Append(os, [calls |-> <<>>]) IN [objs |-> new, x |-> Len(new)]

(* x.method(...): the call is applied to the object x is bound to. *)
Apply(os, cur, stmt, outcome) ==
    [os EXCEPT ![cur].calls = Append(@, [stmt |-> stmt, outcome |-> outcome])]

---------------------------------------------------------------------------
Init ==
    /\ script \in Scripts
    /\ i = 1
    /\ pc = 1
    /\ x = 0
    /\ objs = <<>>
    /\ written = <<>>
    /\ status = "running"

NewXDSM ==
    /\ AtStmt("XDSM")
    /\ \E outcome \in Outcomes :
          /\ status' = AfterCall(outcome)
          /\ pc' = NextPc(outcome)
          /\ IF outcome = "ok"
                THEN /\ objs' = Construct(objs, x).objs
                     /\ x' = Construct(objs, x).x
                ELSE UNCHANGED <<objs, x>>
    /\ UNCHANGED <<script, i, written>>

(* x.add_system(node_name, style, label, stack=, faded=) *)
AddSystem ==
    /\ AtStmt("add_system")
    /\ x \in DOMAIN objs
    /\ \E outcome \in Outcomes :
          /\ objs' = Apply(objs, x, Stmt, outcome)
          /\ status' = AfterCall(outcome)
          /\ pc' = NextPc(outcome)
    /\ UNCHANGED <<script, i, x, written>>

(* x.connect(src, target, label, stack=) *)
Connect ==
    /\ AtStmt("connect")
    /\ x \in DOMAIN objs
    /\ \E outcome \in Outcomes :
          /\ objs' = Apply(objs, x, Stmt, outcome)
          /\ status' = AfterCall(outcome)
          /\ pc' = NextPc(outcome)
    /\ UNCHANGED <<script, i, x, written>>

(* x.add_process(systems) *)
AddProcess ==
    /\ AtStmt("add_process")
    /\ x \in DOMAIN objs
    /\ \E outcome \in Outcomes :
          /\ objs' = Apply(objs, x, Stmt, outcome)
          /\ status' = AfterCall(outcome)
          /\ pc' = NextPc(outcome)
    /\ UNCHANGED <<script, i, x, written>>

(* x.add_input(name, label) *)
AddInput ==
    /\ AtStmt("add_input")
    /\ x \in DOMAIN objs
    /\ \E outcome \in Outcomes :
          /\ objs' = Apply(objs, x, Stmt, outcome)
          /\ status' = AfterCall(outcome)
          /\ pc' = NextPc(outcome)
    /\ UNCHANGED <<script, i, x, written>>

(* x.add_output(name, label) *)
AddOutput ==
    /\ AtStmt("add_output")
    /\ x \in DOMAIN objs
    /\ \E outcome \in Outcomes :
          /\ objs' = Apply(objs, x, Stmt, outcome)
          /\ status' = AfterCall(outcome)
          /\ pc' = NextPc(outcome)
    /\ UNCHANGED <<script, i, x, written>>

(* x.write(name, ...): when it returns, the file set `name` has been
   produced from the object x is bound to. *)
Write ==
    /\ AtStmt("write")
    /\ x \in DOMAIN objs
    /\ \E outcome \in Outcomes :
          /\ objs' = Apply(objs, x, Stmt, outcome)
          /\ status' = AfterCall(outcome)
          /\ pc' = NextPc(outcome)
          /\ written' = IF outcome = "ok"
                           THEN Append(written, [name |-> Stmt.name, obj |-> x])
                           ELSE written
    /\ UNCHANGED <<script, i, x>>

(* for figure_set in figure_sets: take the next element. *)
ForNext ==
    /\ status = "running"
    /\ pc = Len(Body(script, i)) + 1
    /\ i < Iterations(script)
    /\ i' = i + 1
    /\ pc' = 1
    /\ UNCHANGED <<script, x, objs, written, status>>

(* The last statement has run: the script ends. *)
Exit ==
    /\ status = "running"
    /\ pc = Len(Body(script, i)) + 1
    /\ i = Iterations(script)
    /\ status' = "done"
    /\ UNCHANGED <<script, i, pc, x, objs, written>>

Next ==
    \/ NewXDSM
    \/ AddSystem
    \/ Connect
    \/ AddProcess
    \/ AddInput
    \/ AddOutput
    \/ Write
    \/ ForNext
    \/ Exit

Spec == Init /\ [][Next]_vars

---------------------------------------------------------------------------
(* What a Diagram holds: the declarations made by the calls that returned. *)

Returned(o, op) == SelectSeq(o.calls, LAMBDA c : c.stmt.op = op /\ c.outcome = "ok")

SystemIds(o) == {Returned(o, "add_system")[k].stmt.id : k \in DOMAIN Returned(o, "add_system")}

Connections(o) ==
    {<<Returned(o, "connect")[k].stmt.src, Returned(o, "connect")[k].stmt.target>> :
        k \in DOMAIN Returned(o, "connect")}

Range(seq) == {seq[k] : k \in DOMAIN seq}

(* write has returned for the Diagram. *)
Finalized(o) == Returned(o, "write") # <<>>

Diagrams == DOMAIN objs

---------------------------------------------------------------------------
(* C3.  Referential closure: in every state either script reaches, and so
   in every Diagram handed to write, the source and the target of every
   connection, the target of every input and output, and every entry of a
   process is the id of a system declared in the same Diagram. *)
ReferentialClosure ==
    \A d \in Diagrams :
        LET o == objs[d] IN
        /\ \A k \in DOMAIN Returned(o, "connect") :
              /\ Returned(o, "connect")[k].stmt.src \in SystemIds(o)
              /\ Returned(o, "connect")[k].stmt.target \in SystemIds(o)
        /\ \A k \in DOMAIN Returned(o, "add_input") :
              Returned(o, "add_input")[k].stmt.id \in SystemIds(o)
        /\ \A k \in DOMAIN Returned(o, "add_output") :
              Returned(o, "add_output")[k].stmt.id \in SystemIds(o)
        /\ \A k \in DOMAIN Returned(o, "add_process") :
              Range(Returned(o, "add_process")[k].stmt.systems) \subseteq SystemIds(o)

(* Both scripts have handed a Diagram with connections, inputs and outputs
   to write; the weight-estimation one also holds a process. *)
ReferentialClosureWitness ==
    \E d \in Diagrams :
        /\ Finalized(objs[d])
        /\ Returned(objs[d], "connect") # <<>>
        /\ Returned(objs[d], "add_input") # <<>>
        /\ Returned(objs[d], "add_output") # <<>>
        /\ Returned(objs[d], "add_process") # <<>>

(* C4.  No two systems declared in one Diagram have the same id, whether or
   not an add_system call failed; a finalized constraint-analysis Diagram
   holds six systems and a finalized weight-estimation Diagram four. *)
UniqueSystemIds ==
    \A d \in Diagrams :
        LET decl == Returned(objs[d], "add_system") IN
        /\ \A a, b \in DOMAIN decl : a # b => decl[a].stmt.id # decl[b].stmt.id
        /\ Finalized(objs[d]) =>
              /\ Len(decl) = IF script = "constraint_analysis"
                                THEN Len(ConstraintSystems)
                                ELSE Len(WeightSystems(figure_sets[d]))
              /\ Cardinality(SystemIds(objs[d])) = Len(decl)

(* The constraint-analysis Diagram has been written with its six systems. *)
UniqueSystemIdsWitness ==
    /\ script = "constraint_analysis"
    /\ \E d \in Diagrams :
          /\ Finalized(objs[d])
          /\ Cardinality(SystemIds(objs[d])) = Len(ConstraintSystems)

(* C6.  building -> finalized: a Diagram is created with nothing declared;
   x is bound to the newest Diagram and every older one has been finalized;
   once write has returned for a Diagram no call is ever applied to it
   again. *)
LifecycleInv ==
    /\ x = Len(objs)
    /\ \A d \in Diagrams : d < Len(objs) => Finalized(objs[d])
    /\ \A d \in Diagrams :
          \A k \in DOMAIN objs[d].calls :
              objs[d].calls[k].stmt.op = "write" => k = Len(objs[d].calls)

LifecycleStep ==
    /\ \A d \in Diagrams :
          Finalized(objs[d]) => d \in DOMAIN objs' /\ objs'[d] = objs[d]
    /\ \A d \in DOMAIN objs' : d \notin Diagrams => objs'[d].calls = <<>>

Lifecycle == []LifecycleInv /\ [][LifecycleStep]_vars

(* The weight-estimation loop is declaring into its third Diagram after the
   first two have been finalized. *)
LifecycleWitness ==
    /\ Len(objs) >= Len(written) + 1
    /\ Len(written) >= 2
    /\ objs[x].calls # <<>>
    /\ Finalized(objs[1])

(* C8.  A call that raises is the last call ever applied to its Diagram:
   no later statement of that figure runs and no file set is written for
   that Diagram. *)
AbortOnFailure ==
    \A d \in Diagrams :
        \A k \in DOMAIN objs[d].calls :
            objs[d].calls[k].outcome = "raise" =>
                /\ k = Len(objs[d].calls)
                /\ status = "aborted"
                /\ \A w \in DOMAIN written : written[w].obj # d

(* A connect call has raised in a later iteration of the weight-estimation
   loop, after earlier figures were written. *)
AbortOnFailureWitness ==
    /\ written # <<>>
    /\ \E d \in Diagrams :
          /\ objs[d].calls # <<>>
          /\ objs[d].calls[Len(objs[d].calls)].outcome = "raise"
          /\ objs[d].calls[Len(objs[d].calls)].stmt.op = "connect"

(* The variant names in the order the figures are to be generated. *)
VariantNames ==
    << "WeightEstimationXDSM", "MissionSegmentWeightXDSM", "FuelWeightXDSM",
       "TakeoffWeightXDSM", "EmptyWeightXDSM", "TakeoffEmptyWeightXDSM" >>

Unfaded(stmt) == IF stmt.op = "add_system" THEN [stmt EXCEPT !.faded = FALSE] ELSE stmt

(* The declarations applied to a Diagram so far, write left out. *)
Declarations(o) ==
    LET decl == SelectSeq(o.calls, LAMBDA c : c.stmt.op # "write")
    IN  [k \in DOMAIN decl |-> decl[k].stmt]

(* C9.  The weight-estimation script writes its variants one at a time in
   the order of the list: the k-th file set written carries the k-th name
   and comes from the k-th Diagram, after all twelve declarations of that
   Diagram and before the next Diagram is created; a Diagram holds only
   declarations of its own variant, and two Diagrams differ only in the
   faded flags of their systems; a run that ends normally has written all
   six. *)
VariantOrder ==
    script = "weight_estimation" =>
        /\ Len(written) <= Len(VariantNames)
        /\ \A k \in DOMAIN written :
              /\ written[k].name = VariantNames[k]
              /\ written[k].obj = k
        /\ Len(objs) <= Len(written) + 1
        /\ \A d \in Diagrams :
              /\ Len(Returned(objs[d], "write")) <= 1
              /\ Finalized(objs[d]) =>
                    /\ d \in DOMAIN written
                    /\ Len(Returned(objs[d], "add_system")) = 4
                    /\ Len(Returned(objs[d], "connect")) = 4
                    /\ Len(Returned(objs[d], "add_process")) = 1
                    /\ Len(Returned(objs[d], "add_input")) = 2
                    /\ Len(Returned(objs[d], "add_output")) = 1
              /\ \A k \in DOMAIN Returned(objs[d], "add_system") :
                    Returned(objs[d], "add_system")[k].stmt.faded = figure_sets[d][k + 1]
        /\ \A d, e \in Diagrams :
              \A k \in DOMAIN Declarations(objs[d]) \cap DOMAIN Declarations(objs[e]) :
                  Unfaded(Declarations(objs[d])[k]) = Unfaded(Declarations(objs[e])[k])
        /\ status = "done" => Len(written) = Len(VariantNames)

(* The loop has run to its end and all six variants are written. *)
VariantOrderWitness ==
    /\ script = "weight_estimation"
    /\ status = "done"
    /\ Len(written) = Len(VariantNames)
    /\ Len(objs) = Len(VariantNames)

(* C10.  In every weight-estimation Diagram that holds a process, each pair
   of consecutive ids of the process is a declared connection of the
   Diagram, and each declared connection is such a pair. *)
ProcessFollowsConnections ==
    script = "weight_estimation" =>
        \A d \in Diagrams :
            \A k \in DOMAIN Returned(objs[d], "add_process") :
                LET proc  == Returned(objs[d], "add_process")[k].stmt.systems
                    steps == {<<proc[n], proc[n + 1]>> : n \in 1 .. (Len(proc) - 1)}
                IN  /\ proc = <<"mission_segment", "fuel", "takeoff", "empty", "takeoff">>
                    /\ steps \subseteq Connections(objs[d])
                    /\ Connections(objs[d]) \subseteq steps

(* A weight-estimation Diagram with its four connections and its process
   has been written. *)
ProcessFollowsConnectionsWitness ==
    /\ script = "weight_estimation"
    /\ \E d \in Diagrams :
          /\ Finalized(objs[d])
          /\ Returned(objs[d], "add_process") # <<>>
          /\ Cardinality(Connections(objs[d])) = 4

====
